---- MODULE Spec2Model ----
(***************************************************************************)
(* State-machine model of src/src/kernels.py: the blocked matrix           *)
(* multiplication kernel nki_matmul_fully_optimized_ and the RMS           *)
(* normalisation kernel nki_rmsnorm_kernel.                                *)
(*                                                                         *)
(* Arithmetic is exact (integers, and for rsqrt a symbolic value), so the  *)
(* model speaks about the index arithmetic, the loop structure and the     *)
(* data flow of the kernels, not about the rounding of an element type.    *)
(* Iterations of an nl.affine_range loop are taken in any order and        *)
(* interleaved; iterations of nl.sequential_range are taken in order.      *)
(***************************************************************************)
EXTENDS Integers, FiniteSets, Sequences, TLC

\* ---------------------------------------------------------------- bounds
\* Largest extents of the matmul operands, and of their product M*N*K.
MaxM == 2
MaxN == 2
MaxK == 4
MaxVolume == 8

\* nl.tile_size.* of the hardware targets explored (128/128/512 on the
\* target the source was written for), and the TILES_IN_BLOCK_* choices.
TileSizes == {1, 2}
TilesInBlock == {1, 2}
\* Input families: all elements 1, and pairwise distinct position-coded values.
InputPatterns == {"ones", "index"}
\* What an out-of-range read of a scratch tile may deliver.
Garbage == {0, 1}

VARIABLES
    shape,          \* [K, M, K_, N]: lhsT.shape and rhs.shape
    tile,           \* [M, K, N]: TILE_M, TILE_K, TILE_N
    tib,            \* [M, N, K]: TILES_IN_BLOCK_M/N/K
    pattern,        \* the input family lhsT and rhs were drawn from
    lhsT, rhs,      \* the input tensors in external memory
    pc,             \* position of the kernel invocation
    result,         \* the elements of result written so far: <<i,j>> -> value
    written,        \* <<i,j>> -> number of times result[i,j] was stored
    lanes,          \* n -> progress of N-block iteration n
    result_tiles,   \* n -> the accumulation region of N-block n
    rhs_tiles,      \* n -> the rhs tiles staged for the current K-block
    lhsT_tiles,     \* n -> (m -> the lhsT tiles staged for the current K-block)
    allocs,         \* buffers allocated so far
    loads,          \* load transfers issued so far
    macs, nmacs,    \* multiply-accumulates issued: their identities, their number
    contrib, nacc,  \* additions into the accumulation region: identities, number
    stores, nstores \* stores to result issued: their footprints, their number

VARIABLES
    rshape,         \* [batch, seqlen, dim]: hidden.shape
    hw,             \* [pmax, fmax]: nl.tile_size.pmax, nl.tile_size.psum_fmax
    rpattern,       \* the input family hidden was drawn from
    hidden,         \* the input tensor in external memory
    rpc,            \* position of the rmsnorm invocation
    iters,          \* <<b, i>> -> progress of row-group i of batch b
    a_tile,         \* <<b, i>> -> the tile loaded by that iteration
    out_tensor,     \* the elements of out_tensor written so far
    out_written,    \* <<b, s, d>> -> number of times out_tensor[b,s,d] was stored
    rloads, nrloads,    \* loads issued by rmsnorm: footprints, number
    rstores, nrstores   \* stores issued by rmsnorm: footprints, number

rmsvars == <<rshape, hw, rpattern, hidden, rpc, iters, a_tile, out_tensor,
             out_written, rloads, nrloads, rstores, nrstores>>

mmvars == <<shape, tile, tib, pattern, lhsT, rhs, pc, result, written, lanes,
            result_tiles, rhs_tiles, lhsT_tiles, allocs, loads, macs, nmacs,
            contrib, nacc, stores, nstores>>

vars == <<mmvars, rmsvars>>

\* ------------------------------------------------------------- parameters
K == shape.K
M == shape.M
K_ == shape.K_
N == shape.N
TILE_M == tile.M
TILE_K == tile.K
TILE_N == tile.N
TILES_IN_BLOCK_M == tib.M
TILES_IN_BLOCK_N == tib.N
TILES_IN_BLOCK_K == tib.K
BLOCK_M == TILE_M * TILES_IN_BLOCK_M
BLOCK_N == TILE_N * TILES_IN_BLOCK_N
BLOCK_K == TILE_K * TILES_IN_BLOCK_K
NUM_BLOCK_M == M \div BLOCK_M
NUM_BLOCK_N == N \div BLOCK_N
NUM_BLOCK_K == K \div BLOCK_K

\* ---------------------------------------------------------------- helpers
Range(n) == 0 .. (n - 1)

RECURSIVE SumTo(_, _)
\* f[0] + ... + f[n-1]
SumTo(f, n) == IF n = 0 THEN 0 ELSE SumTo(f, n - 1) + f[n - 1]

\* The input tensors of a pattern.
LhsTInput(pat, k, m) ==
    [ci \in Range(k) \X Range(m) |->
        IF pat = "ones" THEN 1 ELSE 1 + ci[1] * m + ci[2]]
RhsInput(pat, k, n) ==
    [cj \in Range(k) \X Range(n) |->
        IF pat = "ones" THEN 1 ELSE 2 + 3 * (cj[1] * n + cj[2])]

\* Line 47: the assertion on the contraction dimensions.
SameContraction == K = K_
\* Mutant: the divisibility of K is not asserted.
BlocksDivideNoK == M % BLOCK_M = 0 /\ N % BLOCK_N = 0
\* Lines 60-62: the assertions on the block sizes.
BlocksDivide == M % BLOCK_M = 0 /\ N % BLOCK_N = 0 /\ K % BLOCK_K = 0

\* nl.zeros for the accumulation region of one N-block.
ZeroResultTiles ==
    [s \in Range(NUM_BLOCK_M) \X Range(TILES_IN_BLOCK_M) \X Range(TILES_IN_BLOCK_N)
           \X Range(TILE_M) \X Range(TILE_N) |-> 0]

NewLane == [pc |-> "alloc", k |-> 0, rhs_loaded |-> FALSE, lhs_loaded |-> {},
            mm_done |-> {}, stored |-> {}]

\* ------------------------------------------------------------------- Init
Shapes ==
    {s \in [K : 1 .. MaxK, M : 1 .. MaxM, K_ : 1 .. MaxK, N : 1 .. MaxN] :
        s.M * s.N * s.K <= MaxVolume}

\* The kernel that is not being invoked has no state.
RmsIdle ==
    /\ rshape = <<>> /\ hw = <<>> /\ rpattern = "" /\ hidden = <<>>
    /\ rpc = "idle" /\ iters = <<>> /\ a_tile = <<>> /\ out_tensor = <<>>
    /\ out_written = <<>> /\ rloads = {} /\ nrloads = 0 /\ rstores = {}
    /\ nrstores = 0
MatmulIdle ==
    /\ shape = <<>> /\ tile = <<>> /\ tib = <<>> /\ pattern = ""
    /\ lhsT = <<>> /\ rhs = <<>> /\ pc = "idle" /\ result = <<>>
    /\ written = <<>> /\ lanes = <<>> /\ result_tiles = <<>>
    /\ rhs_tiles = <<>> /\ lhsT_tiles = <<>> /\ allocs = {} /\ loads = {}
    /\ macs = {} /\ nmacs = 0 /\ contrib = {} /\ nacc = 0 /\ stores = {}
    /\ nstores = 0

InitMatmul ==
    /\ RmsIdle
    /\ shape \in Shapes
    /\ tile \in [M : TileSizes, K : TileSizes, N : TileSizes]
    /\ tib \in [M : TilesInBlock, N : TilesInBlock, K : TilesInBlock]
    /\ pattern \in InputPatterns
    /\ lhsT = LhsTInput(pattern, shape.K, shape.M)
    /\ rhs = RhsInput(pattern, shape.K_, shape.N)
    /\ pc = "entry"
    /\ result = <<>>
    /\ written = <<>>
    /\ lanes = <<>>
    /\ result_tiles = <<>>
    /\ rhs_tiles = <<>>
    /\ lhsT_tiles = <<>>
    /\ allocs = {}
    /\ loads = {}
    /\ macs = {}
    /\ nmacs = 0
    /\ contrib = {}
    /\ nacc = 0
    /\ stores = {}
    /\ nstores = 0

\* ---------------------------------------------------------------- actions
\* Lines 45-47: the shapes are read and the contraction dimensions compared.
CheckContraction ==
    /\ pc = "entry"
    /\ pc' = IF SameContraction THEN "alloc_result" ELSE "error"
    /\ UNCHANGED rmsvars
    /\ UNCHANGED <<shape, tile, tib, pattern, lhsT, rhs, result, written, lanes,
                   result_tiles, rhs_tiles, lhsT_tiles, allocs, loads, macs,
                   nmacs, contrib, nacc, stores, nstores>>

\* Line 49: result = nl.ndarray((M, N), buffer=nl.shared_hbm).
AllocResult ==
    /\ pc = "alloc_result"
    /\ allocs' = allocs \cup {<<"result">>}
    /\ written' = [ij \in Range(M) \X Range(N) |-> 0]
    /\ pc' = "check_blocks"
    /\ UNCHANGED rmsvars
    /\ UNCHANGED <<shape, tile, tib, pattern, lhsT, rhs, result, lanes,
                   result_tiles, rhs_tiles, lhsT_tiles, loads, macs,
                   nmacs, contrib, nacc, stores, nstores>>

\* Lines 51-66: block sizes, the divisibility assertions, the block counts.
CheckBlocks ==
    /\ pc = "check_blocks"
    /\ IF BlocksDivide
       THEN /\ pc' = "run"
            /\ lanes' = [n \in Range(NUM_BLOCK_N) |-> NewLane]
            /\ result_tiles' = [n \in Range(NUM_BLOCK_N) |-> <<>>]
            /\ rhs_tiles' = [n \in Range(NUM_BLOCK_N) |-> <<>>]
            /\ lhsT_tiles' = [n \in Range(NUM_BLOCK_N) |->
                                 [m \in Range(NUM_BLOCK_M) |-> <<>>]]
       ELSE /\ pc' = "error"
            /\ UNCHANGED <<lanes, result_tiles, rhs_tiles, lhsT_tiles>>
    /\ UNCHANGED rmsvars
    /\ UNCHANGED <<shape, tile, tib, pattern, lhsT, rhs, result, written,
                   allocs, loads, macs, nmacs, contrib, nacc, stores, nstores>>

\* ------------------------------------------------------- index arithmetic
\* Line 98-99: the element of rhs that lands in rhs_tiles[bk_r, p, x].
RhsRow(k, bk_r, p) == (TILES_IN_BLOCK_K * k + bk_r) * TILE_K + p
RhsCol(n, x) == BLOCK_N * n + x
\* Mutant: the K-block offset is left out of the row loaded from lhsT.
LhsTRowFirstBlock(k, bk_l, p) == bk_l * TILE_K + p
\* Line 115-116: the element of lhsT that lands in lhsT_tiles[bk_l, p, x].
LhsTRow(k, bk_l, p) == (TILES_IN_BLOCK_K * k + bk_l) * TILE_K + p
LhsTCol(m, x) == BLOCK_M * m + x
\* Mutant: the N-tile index is left out of the slot.
AccSlotNoN(m, bm, bn) == <<m, bm, 0>>
\* Line 137: the slot of the accumulation region a tile pair adds into.
AccSlot(m, bm, bn) == <<m, bm, bn>>
\* Mutant: the accumulator is assigned to the slot, not added into it.
AccumulateOverwrite(old, add) == add
\* Line 137: result_tiles[...] += res_tile[...].
Accumulate(old, add) == old + add
\* Lines 144-147: the partition extent of i_res, i_res_packed, result_packed.
PackedRows == TILE_K
\* Lines 157-158: the element of result that result_packed[p, x] is stored to.
ResultRow(m, bm, p) == (TILES_IN_BLOCK_M * m + bm) * TILE_K + p
\* Mutant: the N-block offset is left out of the column stored to.
ResultColNoBlock(n, x) == x
ResultCol(n, x) == BLOCK_N * n + x

\* The (m, bn, bm) iterations of one K-block, and the (m, bm) store iterations.
TilePairs == Range(NUM_BLOCK_M) \X Range(TILES_IN_BLOCK_N) \X Range(TILES_IN_BLOCK_M)
StoreRows == Range(NUM_BLOCK_M) \X Range(TILES_IN_BLOCK_M)

\* nisa.nc_matmul(stationary[TILE_K, TILE_M], moving[TILE_K, TILE_N]):
\* stationary^T x moving, a [TILE_M, TILE_N] tile.
nc_matmul(stationary, moving) ==
    [ij \in Range(TILE_M) \X Range(TILE_N) |->
        SumTo([p \in Range(TILE_K) |-> stationary[p, ij[1]] * moving[p, ij[2]]],
              TILE_K)]

\* Lines 132-133: the operands of the multiply-accumulate of K-tile bk.
Stationary(n, m, bm, bk) ==
    [px \in Range(TILE_K) \X Range(TILE_M) |->
        lhsT_tiles[n][m][bk, px[1], bm * TILE_M + px[2]]]
Moving(n, bn, bk) ==
    [px \in Range(TILE_K) \X Range(TILE_N) |->
        rhs_tiles[n][bk, px[1], bn * TILE_N + px[2]]]

RECURSIVE res_tile(_, _, _, _, _)
\* Lines 126-134: the accumulator after the first cnt iterations of the bk loop.
res_tile(n, m, bn, bm, cnt) ==
    IF cnt = 0
    THEN [ij \in Range(TILE_M) \X Range(TILE_N) |-> 0]
    ELSE LET prev == res_tile(n, m, bn, bm, cnt - 1)
             prod == nc_matmul(Stationary(n, m, bm, cnt - 1), Moving(n, bn, cnt - 1))
         IN  [ij \in Range(TILE_M) \X Range(TILE_N) |-> prev[ij] + prod[ij]]

\* ------------------------------------------------------ N-block iterations
Running(n) == pc = "run" /\ n \in DOMAIN lanes

\* Lines 70-80: result_tiles = nl.zeros(...) at the start of N-block n.
AllocResultTiles(n) ==
    /\ Running(n)
    /\ lanes[n].pc = "alloc"
    /\ result_tiles' = [result_tiles EXCEPT ![n] = ZeroResultTiles]
    /\ allocs' = allocs \cup {<<"result_tiles", n>>}
    /\ lanes' = [lanes EXCEPT ![n].pc = IF NUM_BLOCK_K = 0 THEN "store" ELSE "kloop"]
    /\ UNCHANGED rmsvars
    /\ UNCHANGED <<shape, tile, tib, pattern, lhsT, rhs, pc, result, written,
                   rhs_tiles, lhsT_tiles, loads, macs, nmacs, contrib, nacc,
                   stores, nstores>>

\* Lines 88-101: the rhs tiles of K-block lanes[n].k, one load per K-tile.
LoadRhs(n) ==
    /\ Running(n)
    /\ lanes[n].pc = "kloop"
    /\ ~lanes[n].rhs_loaded
    /\ LET k == lanes[n].k IN
       /\ rhs_tiles' = [rhs_tiles EXCEPT ![n] =
              [t \in Range(TILES_IN_BLOCK_K) \X Range(TILE_K) \X Range(BLOCK_N) |->
                  rhs[RhsRow(k, t[1], t[2]), RhsCol(n, t[3])]]]
       /\ allocs' = allocs \cup {<<"rhs_tiles", n, k>>}
       /\ loads' = loads \cup
              {<<"rhs", n, k, 0, bk_r,
                 {RhsRow(k, bk_r, p) : p \in Range(TILE_K)},
                 {RhsCol(n, x) : x \in Range(BLOCK_N)}>> :
                     bk_r \in Range(TILES_IN_BLOCK_K)}
    /\ lanes' = [lanes EXCEPT ![n].rhs_loaded = TRUE]
    /\ UNCHANGED rmsvars
    /\ UNCHANGED <<shape, tile, tib, pattern, lhsT, rhs, pc, result, written,
                   result_tiles, lhsT_tiles, macs, nmacs, contrib, nacc,
                   stores, nstores>>

\* Lines 104-118: the lhsT tiles of K-block lanes[n].k and M-block m.
LoadLhsT(n, m) ==
    /\ Running(n)
    /\ lanes[n].pc = "kloop"
    /\ lanes[n].rhs_loaded
    /\ m \in Range(NUM_BLOCK_M) \ lanes[n].lhs_loaded
    /\ LET k == lanes[n].k IN
       /\ lhsT_tiles' = [lhsT_tiles EXCEPT ![n][m] =
              [t \in Range(TILES_IN_BLOCK_K) \X Range(TILE_K) \X Range(BLOCK_M) |->
                  lhsT[LhsTRow(k, t[1], t[2]), LhsTCol(m, t[3])]]]
       /\ allocs' = allocs \cup {<<"lhsT_tiles", n, k, m>>}
       /\ loads' = loads \cup
              {<<"lhsT", n, k, m, bk_l,
                 {LhsTRow(k, bk_l, p) : p \in Range(TILE_K)},
                 {LhsTCol(m, x) : x \in Range(BLOCK_M)}>> :
                     bk_l \in Range(TILES_IN_BLOCK_K)}
    /\ lanes' = [lanes EXCEPT ![n].lhs_loaded = @ \cup {m}]
    /\ UNCHANGED rmsvars
    /\ UNCHANGED <<shape, tile, tib, pattern, lhsT, rhs, pc, result, written,
                   result_tiles, rhs_tiles, macs, nmacs, contrib, nacc,
                   stores, nstores>>

\* Lines 124-139: one (N-tile, M-tile) pair of M-block m: a zeroed accumulator,
\* one multiply-accumulate per K-tile, one addition into the accumulation region.
MatmulTile(n, m, bn, bm) ==
    /\ Running(n)
    /\ lanes[n].pc = "kloop"
    /\ m \in lanes[n].lhs_loaded
    /\ <<m, bn, bm>> \in TilePairs \ lanes[n].mm_done
    /\ LET k == lanes[n].k
           acc == res_tile(n, m, bn, bm, TILES_IN_BLOCK_K)
           slot == AccSlot(m, bm, bn)
       IN
       /\ result_tiles' = [result_tiles EXCEPT ![n] =
              [s \in DOMAIN @ |->
                  IF <<s[1], s[2], s[3]>> = slot
                  THEN Accumulate(@[s], acc[s[4], s[5]])
                  ELSE @[s]]]
       /\ allocs' = allocs \cup {<<"res_tile", n, k, m, bn, bm>>}
       /\ macs' = macs \cup {<<n, k, m, bn, bm, bk>> : bk \in Range(TILES_IN_BLOCK_K)}
       /\ nmacs' = nmacs + TILES_IN_BLOCK_K
       /\ contrib' = contrib \cup {<<n, k, slot>>}
       /\ nacc' = nacc + 1
    /\ lanes' = [lanes EXCEPT ![n].mm_done = @ \cup {<<m, bn, bm>>}]
    /\ UNCHANGED rmsvars
    /\ UNCHANGED <<shape, tile, tib, pattern, lhsT, rhs, pc, result, written,
                   rhs_tiles, lhsT_tiles, loads, stores, nstores>>

\* Mutant: the K-block loop does not wait for the iteration before (an affine loop).
KBlockCompleteEarly(n) == TRUE
\* Line 85: nl.sequential_range - K-block k+1 starts when K-block k has ended.
KBlockComplete(n) == lanes[n].mm_done = TilePairs

\* The end of the body of K-block lanes[n].k: its staged tiles are released.
EndKBlock(n) ==
    /\ Running(n)
    /\ lanes[n].pc = "kloop"
    /\ lanes[n].rhs_loaded
    /\ KBlockComplete(n)
    /\ lanes' = [lanes EXCEPT ![n] =
           [@ EXCEPT !.k = @ + 1, !.rhs_loaded = FALSE, !.lhs_loaded = {},
                     !.mm_done = {},
                     !.pc = IF lanes[n].k + 1 = NUM_BLOCK_K THEN "store" ELSE "kloop"]]
    /\ rhs_tiles' = [rhs_tiles EXCEPT ![n] = <<>>]
    /\ lhsT_tiles' = [lhsT_tiles EXCEPT ![n] = [m \in Range(NUM_BLOCK_M) |-> <<>>]]
    /\ UNCHANGED rmsvars
    /\ UNCHANGED <<shape, tile, tib, pattern, lhsT, rhs, pc, result, written,
                   result_tiles, allocs, loads, macs, nmacs, contrib, nacc,
                   stores, nstores>>

\* ------------------------------------------------------------- store-back
\* Lines 151-154: result_packed, the N-tiles of row (m, bm) side by side. A
\* partition p outside the accumulation region's TILE_M partitions reads g.
ResultPacked(n, m, bm, g) ==
    [px \in Range(PackedRows) \X Range(BLOCK_N) |->
        LET bn == px[2] \div TILE_N
            x == px[2] % TILE_N
        IN  IF px[1] < TILE_M THEN result_tiles[n][m, bm, bn, px[1], x] ELSE g]

\* The elements of result one store addresses.
StoreCells(n, m, bm) ==
    {<<ResultRow(m, bm, px[1]), ResultCol(n, px[2])>> :
        px \in Range(PackedRows) \X Range(BLOCK_N)}

\* Every index of the store-back is inside the tensor it indexes.
StoreInBounds(n, m, bm) ==
    /\ PackedRows <= TILE_M
    /\ StoreCells(n, m, bm) \subseteq Range(M) \X Range(N)

\* Lines 155-161: nl.store of result_packed; elements outside result are dropped.
StoreEffect(n, m, bm, g) ==
    LET packed == ResultPacked(n, m, bm, g)
        cells == StoreCells(n, m, bm) \cap (Range(M) \X Range(N))
        src(c) == CHOOSE px \in DOMAIN packed :
                      ResultRow(m, bm, px[1]) = c[1] /\ ResultCol(n, px[2]) = c[2]
    IN
    /\ result' = [c \in DOMAIN result \cup cells |->
                     IF c \in cells THEN packed[src(c)] ELSE result[c]]
    /\ written' = [c \in DOMAIN written |->
                      IF c \in cells THEN written[c] + 1 ELSE written[c]]
    /\ allocs' = allocs \cup {<<"result_packed", n, m, bm>>}
    /\ stores' = stores \cup
           {[n |-> n, m |-> m, bm |-> bm,
             rows |-> {ResultRow(m, bm, p) : p \in Range(PackedRows)},
             cols |-> {ResultCol(n, x) : x \in Range(BLOCK_N)},
             tiles |-> {x \div TILE_N : x \in Range(BLOCK_N)}]}
    /\ nstores' = nstores + 1
    /\ lanes' = [lanes EXCEPT ![n].stored = @ \cup {<<m, bm>>}]

\* Lines 142-161: the store of row (m, bm) of N-block n. With an index out of
\* range the substrate either rejects the kernel or the access goes through.
StoreTile(n, m, bm) ==
    /\ Running(n)
    /\ lanes[n].pc = "store"
    /\ <<m, bm>> \in StoreRows \ lanes[n].stored
    /\ \/ /\ StoreInBounds(n, m, bm)
          /\ StoreEffect(n, m, bm, 0)
          /\ pc' = pc
       \/ /\ ~StoreInBounds(n, m, bm)
          /\ \E g \in Garbage : StoreEffect(n, m, bm, g)
          /\ pc' = pc
       \/ /\ ~StoreInBounds(n, m, bm)
          /\ pc' = "fault"
          /\ UNCHANGED <<result, written, allocs, stores, nstores, lanes>>
    /\ UNCHANGED rmsvars
    /\ UNCHANGED <<shape, tile, tib, pattern, lhsT, rhs, result_tiles, rhs_tiles,
                   lhsT_tiles, loads, macs, nmacs, contrib, nacc>>

\* The end of the body of N-block n: its accumulation region is released.
EndNBlock(n) ==
    /\ Running(n)
    /\ lanes[n].pc = "store"
    /\ lanes[n].stored = StoreRows
    /\ lanes' = [lanes EXCEPT ![n].pc = "done"]
    /\ result_tiles' = [result_tiles EXCEPT ![n] = <<>>]
    /\ UNCHANGED rmsvars
    /\ UNCHANGED <<shape, tile, tib, pattern, lhsT, rhs, pc, result, written,
                   rhs_tiles, lhsT_tiles, allocs, loads, macs, nmacs, contrib,
                   nacc, stores, nstores>>

\* Line 162: return result.
Return ==
    /\ pc = "run"
    /\ \A n \in DOMAIN lanes : lanes[n].pc = "done"
    /\ pc' = "done"
    /\ UNCHANGED rmsvars
    /\ UNCHANGED <<shape, tile, tib, pattern, lhsT, rhs, result, written, lanes,
                   result_tiles, rhs_tiles, lhsT_tiles, allocs, loads, macs,
                   nmacs, contrib, nacc, stores, nstores>>

NextMatmul ==
    \/ CheckContraction
    \/ AllocResult
    \/ CheckBlocks
    \/ \E n \in DOMAIN lanes : AllocResultTiles(n)
    \/ \E n \in DOMAIN lanes : LoadRhs(n)
    \/ \E n \in DOMAIN lanes : \E m \in Range(NUM_BLOCK_M) : LoadLhsT(n, m)
    \/ \E n \in DOMAIN lanes : \E t \in TilePairs : MatmulTile(n, t[1], t[2], t[3])
    \/ \E n \in DOMAIN lanes : EndKBlock(n)
    \/ \E n \in DOMAIN lanes : \E r \in StoreRows : StoreTile(n, r[1], r[2])
    \/ \E n \in DOMAIN lanes : EndNBlock(n)
    \/ Return

SpecMatmul == InitMatmul /\ [][NextMatmul]_vars

\* The reference product lhsT^T x rhs.
MatProduct ==
    [ij \in Range(M) \X Range(N) |->
        SumTo([c \in Range(K) |-> lhsT[c, ij[1]] * rhs[c, ij[2]]], K)]

\* The preconditions in the interface's words, spelt out on the shapes.
Admissible ==
    /\ shape.K = shape.K_
    /\ shape.M % (tile.M * tib.M) = 0
    /\ shape.N % (tile.N * tib.N) = 0
    /\ shape.K % (tile.K * tib.K) = 0
\* The target the source names: stationary free tile = partition tile (128 = 128).
SquareStationaryTile == tile.M = tile.K
\* Slots of an accumulation region, and the output element held at [p, x] of one.
Slots == Range(M \div (tile.M * tib.M)) \X Range(tib.M) \X Range(tib.N)
SlotRow(m, bm, p) == (tib.M * m + bm) * tile.M + p
SlotCol(n, bn, x) == (tile.N * tib.N) * n + bn * tile.N + x
\* The sum of lhsT[c,i] * rhs[c,j] over the contraction indices c < upto.
PartialProduct(i, j, upto) ==
    SumTo([c \in Range(upto) |-> lhsT[c, i] * rhs[c, j]], upto)

\* ------------------------------------------------------------------ claims

\* C1: on admissible shapes matmul returns Result[i,j] = sum over c of
\* lhsT[c,i] * rhs[c,j], a value that does not depend on TILES_IN_BLOCK_M/N/K
\* (MatProduct reads only the inputs); with all-ones inputs every element is K.
\* Stated for the tile sizes of the source's target (TILE_M = TILE_K).
MatmulComputesProduct ==
    (pc = "done" /\ SquareStationaryTile) =>
        /\ Admissible
        /\ result = MatProduct
        /\ pattern = "ones" => \A ij \in Range(M) \X Range(N) : result[ij] = K
\* A finished call with two K-blocks of two K-tiles each on distinct-valued inputs.
MatmulComputesProductWitness ==
    /\ pc = "done" /\ SquareStationaryTile
    /\ tib.K = 2 /\ K = 2 * tib.K * tile.K
    /\ pattern = "index" /\ M * N > 1

\* C2 (as stated): a call with mismatched contraction dimensions or a dimension
\* that is no multiple of its block size never runs, and when it has ended in the
\* error outcome nothing whatsoever has been issued: no allocation, load,
\* multiply-accumulate or store, and no element of result is written.
FailFastBeforeAnyAllocation ==
    ~Admissible =>
        /\ pc \in {"entry", "alloc_result", "check_blocks", "error"}
        /\ pc = "error" =>
              /\ allocs = {} /\ loads = {} /\ macs = {} /\ stores = {}
              /\ result = <<>>
\* C2 (amended): such a call never runs and ends in the error outcome before any
\* scratch buffer is allocated and before any load, multiply-accumulate or store;
\* no element of result is written. Only the result tensor itself is already
\* allocated when a divisibility check fails; a contraction mismatch is detected
\* before even that.
FailFastBeforeAnyTransfer ==
    ~Admissible =>
        /\ pc \in {"entry", "alloc_result", "check_blocks", "error"}
        /\ allocs \subseteq {<<"result">>}
        /\ loads = {} /\ macs = {} /\ stores = {} /\ nmacs = 0 /\ nstores = 0
        /\ result = <<>>
        /\ \A c \in DOMAIN written : written[c] = 0
        /\ shape.K # shape.K_ => allocs = {}
        /\ pc = "error" /\ shape.K = shape.K_ => allocs = {<<"result">>}
\* A call that failed a divisibility check although the contraction dimensions match.
FailFastWitness ==
    /\ pc = "error" /\ shape.K = shape.K_
    /\ shape.K % (tile.K * tib.K) # 0
    /\ allocs = {<<"result">>}

\* C5: for every configuration of tile sizes, also with TILE_M # TILE_K, a call on
\* admissible shapes completes and has written Result = lhsT^T x rhs.
TileSizesAreConfiguration ==
    /\ pc # "fault"
    /\ pc = "done" => result = MatProduct

\* C7: within an N-block every update of the accumulation region made by K-block
\* iteration i happens before any made by iteration i+1: whenever an update of
\* iteration k is on record, all updates of the iterations before k are, and the
\* N-block has not moved past k.
KBlocksSequential ==
    \A e \in contrib :
        /\ e[1] \in DOMAIN lanes
        /\ e[2] <= lanes[e[1]].k
        /\ e[2] = lanes[e[1]].k => lanes[e[1]].pc = "kloop"
        /\ \A k2 \in Range(e[2]) : \A s \in Slots : <<e[1], k2, s>> \in contrib
\* An N-block is inside its second K-block with several slots to update.
KBlocksSequentialWitness ==
    \E e \in contrib :
        /\ e[2] = 1 /\ lanes[e[1]].pc = "kloop" /\ lanes[e[1]].k = 1
        /\ Cardinality(Slots) > 1
        /\ lanes[e[1]].mm_done # TilePairs

\* C8: the accumulation region of an N-block is allocated zeroed at its start and
\* never reset: at every moment each slot holds the sum of lhsT[c,i] * rhs[c,j]
\* over c below the end of the last K-block added into it, every (M-tile, N-tile,
\* K-tile) product was issued exactly once, and each pair of each K-block was
\* added into its slot exactly once.
AccumulationInvariant ==
    /\ nmacs = Cardinality(macs)
    /\ nacc = Cardinality(contrib)
    /\ \A n \in DOMAIN lanes :
        /\ (lanes[n].pc = "alloc") = (<<"result_tiles", n>> \notin allocs)
        /\ lanes[n].pc \in {"kloop", "store"} =>
              /\ DOMAIN result_tiles[n] =
                    Range(M \div (tile.M * tib.M)) \X Range(tib.M) \X Range(tib.N)
                        \X Range(tile.M) \X Range(tile.N)
              /\ \A t \in Slots :
                    LET done == <<t[1], t[3], t[2]>> \in lanes[n].mm_done
                        blocks == lanes[n].k + (IF done THEN 1 ELSE 0)
                    IN
                    /\ \A k \in Range(NUM_BLOCK_K) :
                          (<<n, k, t>> \in contrib) = (k < blocks)
                    /\ \A k \in Range(NUM_BLOCK_K) : \A bk \in Range(tib.K) :
                          (<<n, k, t[1], t[3], t[2], bk>> \in macs) = (k < blocks)
                    /\ \A p \in Range(tile.M) : \A x \in Range(tile.N) :
                          result_tiles[n][t[1], t[2], t[3], p, x] =
                              PartialProduct(SlotRow(t[1], t[2], p),
                                             SlotCol(n, t[3], x),
                                             blocks * tile.K * tib.K)
\* Inside the second K-block, with one pair already added and another still to come.
AccumulationWitness ==
    \E n \in DOMAIN lanes :
        /\ lanes[n].pc = "kloop" /\ lanes[n].k = 1 /\ tib.K = 2
        /\ lanes[n].mm_done # {} /\ lanes[n].mm_done # TilePairs
        /\ pattern = "index"

\* C9: no store of an N-block is issued before all its K-blocks are accumulated;
\* there is exactly one store per (M-block, M-tile), carrying the TILES_IN_BLOCK_N
\* N-tiles of its slots in column order to rows [(TILES_IN_BLOCK_M*m+bm)*TILE_M,
\* +TILE_M) and columns [BLOCK_N*n, +BLOCK_N); stores never overlap, every element
\* of result is written exactly once, and lhsT and rhs are never written.
\* Stated for the tile sizes of the source's target (TILE_M = TILE_K).
StoreBackWriteOnce ==
    SquareStationaryTile =>
        /\ nstores = Cardinality(stores)
        /\ \A st \in stores :
            /\ lanes[st.n].pc \in {"store", "done"}
            /\ lanes[st.n].k = NUM_BLOCK_K
            /\ \A k \in Range(NUM_BLOCK_K) : \A s \in Slots : <<st.n, k, s>> \in contrib
            /\ st.rows = {SlotRow(st.m, st.bm, p) : p \in Range(tile.M)}
            /\ st.cols = {(tile.N * tib.N) * st.n + x : x \in Range(tile.N * tib.N)}
            /\ st.tiles = Range(tib.N)
            /\ \A c \in st.rows \X st.cols :
                  /\ c \in DOMAIN result
                  /\ result[c] = PartialProduct(c[1], c[2], K)
            /\ \A st2 \in stores :
                  st2 # st =>
                      /\ <<st2.n, st2.m, st2.bm>> # <<st.n, st.m, st.bm>>
                      /\ (st.rows \X st.cols) \cap (st2.rows \X st2.cols) = {}
        /\ \A c \in DOMAIN written :
              /\ written[c] <= 1
              /\ (written[c] = 1) = (c \in DOMAIN result)
              /\ (written[c] = 1) = (\E st \in stores : c \in st.rows \X st.cols)
        /\ pc = "done" =>
              /\ \A c \in Range(M) \X Range(N) : written[c] = 1
              /\ nstores = NUM_BLOCK_N * NUM_BLOCK_M * tib.M
        /\ lhsT = LhsTInput(pattern, shape.K, shape.M)
        /\ rhs = RhsInput(pattern, shape.K_, shape.N)
\* A finished call whose stores each coalesced two N-tiles, over two N-blocks or
\* two M-tiles.
StoreBackWitness ==
    /\ pc = "done" /\ SquareStationaryTile
    /\ tib.N = 2 /\ nstores >= 2

\* C10: the order-independent loops are race-free: no two iterations of the
\* N-block, M-block or tile-pair loops use the same accumulator, add into the same
\* slot of an accumulation region or store the same element of result, and in
\* every order and interleaving of their iterations the call ends with the result
\* of program order, lhsT^T x rhs.
\* The last two parts are stated for the tile sizes of the source's target.
AffineLoopsRaceFree ==
    /\ nacc = Cardinality(contrib)
    /\ nacc = Cardinality({a \in allocs : a[1] = "res_tile"})
    /\ \A n \in DOMAIN lanes :
          Cardinality(lanes[n].mm_done) =
              Cardinality({e \in contrib : e[1] = n /\ e[2] = lanes[n].k})
    /\ SquareStationaryTile =>
          /\ \A c \in DOMAIN written : written[c] <= 1
          /\ pc = "done" => result = MatProduct
\* N-block 1 has finished, stores included, before N-block 0 has begun.
AffineLoopsWitness ==
    /\ pc = "run" /\ SquareStationaryTile
    /\ DOMAIN lanes = {0, 1}
    /\ lanes[1].pc = "done" /\ lanes[0].pc = "alloc"
    /\ Cardinality(TilePairs) > 1

\* =================================================== nki_rmsnorm_kernel
\* Largest extents of hidden.
MaxBatch == 2
MaxSeq == 3
MaxDim == 4
\* nl.tile_size.pmax and nl.tile_size.psum_fmax of the targets explored
\* (128 and 512 on the target the source was written for).
PartitionCounts == {2, 3}
FreeSizes == {3}
\* Input families: the row [3,4,0,0,...] followed by zero rows, and pairwise
\* distinct non-zero position-coded values.
RmsPatterns == {"scenario", "index"}

batch == rshape.batch
seqlen == rshape.seqlen
dim == rshape.dim
pmax == hw.pmax
fmax == hw.fmax

HiddenInput(pat, nb, ns, nd) ==
    [e \in Range(nb) \X Range(ns) \X Range(nd) |->
        IF pat = "index"
        THEN 1 + e[3] + nd * (e[2] + ns * e[1])
        ELSE IF e[2] # 0 THEN 0
             ELSE IF e[3] = 0 THEN 3 ELSE IF e[3] = 1 THEN 4 ELSE 0]

\* Mutant: the number of row-groups is rounded down.
NumGroupsFloor == seqlen \div pmax
\* Line 185: math.ceil(seqlen / pmax).
NumGroups == IF seqlen % pmax = 0 THEN seqlen \div pmax ELSE seqlen \div pmax + 1

\* Lines 189, 210: the row of hidden / out_tensor under partition ix of group i.
RowIndex(i, ix) == i * pmax + ix
\* Lines 189, 212: mask=(i * pmax + ix < seqlen).
Mask(i, ix) == i * pmax + ix < seqlen

\* Lines 193-196: nl.sum(nl.square(a_tile), axis=[1]) for one partition.
SquareSum(t, ix) == SumTo([d \in Range(dim) |-> t[ix, d] * t[ix, d]], dim)
\* Mutant: the sum of squares is not divided by dim.
MeanNoDivide(square_sum) == [num |-> square_sum, den |-> 1]
\* Line 199: mean = square_sum / dim, kept as the fraction num/den.
Mean(square_sum) == [num |-> square_sum, den |-> dim]
\* Line 203: nl.rsqrt(mean): +infinity at 0, else the value sqrt(den/num).
Rsqrt(mean) ==
    IF mean.num = 0
    THEN [kind |-> "inf", num |-> 0, den |-> mean.den]
    ELSE [kind |-> "rsqrt", num |-> mean.num, den |-> mean.den]
\* Line 206: nl.multiply(a, rms_reciprocal): the value coef * sqrt(den/num);
\* 0 * infinity is not a number.
Multiply(a, r) ==
    [kind |-> IF r.kind = "rsqrt" THEN "finite" ELSE IF a = 0 THEN "nan" ELSE "inf",
     coef |-> a, num |-> r.num, den |-> r.den]

InitRms ==
    /\ MatmulIdle
    /\ rshape \in [batch : 1 .. MaxBatch, seqlen : 1 .. MaxSeq, dim : 1 .. MaxDim]
    /\ hw \in [pmax : PartitionCounts, fmax : FreeSizes]
    /\ rpattern \in RmsPatterns
    /\ hidden = HiddenInput(rpattern, rshape.batch, rshape.seqlen, rshape.dim)
    /\ rpc = "entry"
    /\ iters = <<>>
    /\ a_tile = <<>>
    /\ out_tensor = <<>>
    /\ out_written = <<>>
    /\ rloads = {}
    /\ nrloads = 0
    /\ rstores = {}
    /\ nrstores = 0

\* Lines 167-178: the tile sizes and the shape are read, out_tensor is allocated,
\* the index grids are built. No comparison is made.
RmsStart ==
    /\ rpc = "entry"
    /\ rpc' = "run"
    /\ iters' = [bi \in Range(batch) \X Range(NumGroups) |-> "todo"]
    /\ a_tile' = [bi \in Range(batch) \X Range(NumGroups) |-> <<>>]
    /\ out_written' = [e \in Range(batch) \X Range(seqlen) \X Range(dim) |-> 0]
    /\ UNCHANGED mmvars
    /\ UNCHANGED <<rshape, hw, rpattern, hidden, out_tensor, rloads, nrloads,
                   rstores, nrstores>>

\* Lines 188-190: the masked load of row-group i of batch b.
RmsLoad(b, i) ==
    /\ rpc = "run"
    /\ iters[b, i] = "todo"
    /\ LET rows == {ix \in Range(pmax) : Mask(i, ix)} IN
       /\ a_tile' = [a_tile EXCEPT ![b, i] =
              [t \in rows \X Range(dim) |-> hidden[b, RowIndex(i, t[1]), t[2]]]]
       /\ rloads' = rloads \cup {<<b, i, {RowIndex(i, ix) : ix \in rows}>>}
    /\ nrloads' = nrloads + 1
    /\ iters' = [iters EXCEPT ![b, i] = "loaded"]
    /\ UNCHANGED mmvars
    /\ UNCHANGED <<rshape, hw, rpattern, hidden, rpc, out_tensor, out_written,
                   rstores, nrstores>>

\* Lines 193-206: square, sum, mean, rsqrt, multiply: the tile to store.
out_tile(t) ==
    [e \in DOMAIN t |-> Multiply(t[e], Rsqrt(Mean(SquareSum(t, e[1]))))]

\* Lines 193-213: the computation on the loaded tile and the masked store.
RmsStore(b, i) ==
    /\ rpc = "run"
    /\ iters[b, i] = "loaded"
    /\ LET rows == {ix \in Range(pmax) : Mask(i, ix)}
           o == out_tile(a_tile[b, i])
           cells == {<<b, RowIndex(i, ix), d>> : ix \in rows, d \in Range(dim)}
       IN
       /\ out_tensor' = [c \in DOMAIN out_tensor \cup cells |->
              IF c \in cells THEN o[c[2] - i * pmax, c[3]] ELSE out_tensor[c]]
       /\ out_written' = [c \in DOMAIN out_written |->
              IF c \in cells THEN out_written[c] + 1 ELSE out_written[c]]
       /\ rstores' = rstores \cup {<<b, i, {RowIndex(i, ix) : ix \in rows}>>}
    /\ nrstores' = nrstores + 1
    /\ iters' = [iters EXCEPT ![b, i] = "stored"]
    /\ a_tile' = [a_tile EXCEPT ![b, i] = <<>>]
    /\ UNCHANGED mmvars
    /\ UNCHANGED <<rshape, hw, rpattern, hidden, rpc, rloads, nrloads>>

\* Line 215: return out_tensor.
RmsReturn ==
    /\ rpc = "run"
    /\ \A bi \in DOMAIN iters : iters[bi] = "stored"
    /\ rpc' = "done"
    /\ UNCHANGED mmvars
    /\ UNCHANGED <<rshape, hw, rpattern, hidden, iters, a_tile, out_tensor,
                   out_written, rloads, nrloads, rstores, nrstores>>

NextRms ==
    \/ RmsStart
    \/ \E bi \in DOMAIN iters : RmsLoad(bi[1], bi[2])
    \/ \E bi \in DOMAIN iters : RmsStore(bi[1], bi[2])
    \/ RmsReturn

SpecRms == InitRms /\ [][NextRms]_vars

\* The sum of the squares of row (b, s) of hidden, read from the input alone.
RowSquares(b, s) ==
    SumTo([d \in Range(rshape.dim) |-> hidden[b, s, d] * hidden[b, s, d]], rshape.dim)
\* The rows of out_tensor with an element written.
WrittenRows == {<<c[1], c[2]>> : c \in DOMAIN out_tensor}

\* C3: rmsnorm iterates ceil(seqlen/pmax) row-groups per batch; every load and
\* every store touches only rows s < seqlen of a batch b < batch; no element of
\* out_tensor is stored twice, at the end each is stored exactly once, and what is
\* stored in out_tensor[b,s,:] is computed from hidden[b,s,:] alone.
RmsRowsExact ==
    rpc # "entry" =>
        /\ DOMAIN iters =
              Range(rshape.batch) \X Range((rshape.seqlen + hw.pmax - 1) \div hw.pmax)
        /\ nrloads = Cardinality(rloads) /\ nrstores = Cardinality(rstores)
        /\ \A t \in rloads \cup rstores :
              /\ t[1] \in Range(rshape.batch)
              /\ t[3] \subseteq Range(rshape.seqlen)
              /\ t[3] = {r \in Range(rshape.seqlen) : r \div hw.pmax = t[2]}
        /\ \A c \in DOMAIN out_written :
              /\ out_written[c] <= 1
              /\ (out_written[c] = 1) = (c \in DOMAIN out_tensor)
        /\ DOMAIN out_tensor \subseteq
              Range(rshape.batch) \X Range(rshape.seqlen) \X Range(rshape.dim)
        /\ \A c \in DOMAIN out_tensor :
              /\ out_tensor[c].coef = hidden[c]
              /\ out_tensor[c].num = RowSquares(c[1], c[2])
        /\ rpc = "done" =>
              /\ \A c \in DOMAIN out_written : out_written[c] = 1
              /\ \A b \in Range(rshape.batch) : \A r \in Range(rshape.seqlen) :
                    Cardinality({t \in rloads : t[1] = b /\ r \in t[3]}) = 1
\* The boundary case: two batches, a last row-group that is only partly valid.
RmsRowsExactWitness ==
    /\ rpc = "done" /\ rshape.batch = 2 /\ rpattern = "index"
    /\ rshape.seqlen > hw.pmax /\ rshape.seqlen % hw.pmax # 0

\* C4: a feature dimension above the on-chip capacity of a tile ends the call in
\* a configuration error before any load or store, with nothing written.
FeatureDimRejected ==
    (rshape # <<>> /\ rshape.dim > hw.fmax /\ rpc # "entry") =>
        /\ rpc = "error"
        /\ rloads = {} /\ rstores = {} /\ out_tensor = <<>>

\* The mean of the squares of a written row of out_tensor is 1: every element is
\* finite and the squares coef^2 * den/num sum to dim.
UnitRms(b, s) ==
    /\ \A d \in Range(rshape.dim) : out_tensor[b, s, d].kind = "finite"
    /\ SumTo([d \in Range(rshape.dim) |->
                 out_tensor[b, s, d].coef * out_tensor[b, s, d].coef
                     * out_tensor[b, s, d].den], rshape.dim)
           = RowSquares(b, s) * rshape.dim
\* Each written element is hidden[b,s,d] * rsqrt(mean(hidden[b,s,:]^2)).
ScaledByRsqrtMean(b, s) ==
    \A d \in Range(rshape.dim) :
        /\ out_tensor[b, s, d].coef = hidden[b, s, d]
        /\ out_tensor[b, s, d].num = RowSquares(b, s)
        /\ out_tensor[b, s, d].den = rshape.dim

\* C6 (as stated): for every row, out_tensor[b,s,:] = hidden[b,s,:] *
\* rsqrt(mean(hidden[b,s,:]^2)) and the root-mean-square of the output row is 1.
UnitRmsEveryRow ==
    \A r \in WrittenRows : ScaledByRsqrtMean(r[1], r[2]) /\ UnitRms(r[1], r[2])
\* C6 (amended): for every row, out_tensor[b,s,:] = hidden[b,s,:] *
\* rsqrt(mean(hidden[b,s,:]^2)), and for every row with a non-zero element the
\* root-mean-square of the output row is 1; the row [3,4,0,0] has mean-square
\* 25/4 and goes to [6/5, 8/5, 0, 0]. At the end every row is written.
UnitRmsNonZeroRows ==
    /\ \A r \in WrittenRows :
          /\ ScaledByRsqrtMean(r[1], r[2])
          /\ RowSquares(r[1], r[2]) # 0 => UnitRms(r[1], r[2])
    /\ (rpattern = "scenario" /\ rshape.dim = 4 /\ <<0, 0>> \in WrittenRows) =>
          LET o == [d \in Range(4) |-> out_tensor[0, 0, d]] IN
          /\ 4 * o[0].num = 25 * o[0].den
          /\ 25 * o[0].coef * o[0].coef * o[0].den = 36 * o[0].num
          /\ 25 * o[1].coef * o[1].coef * o[1].den = 64 * o[1].num
          /\ o[0].coef > 0 /\ o[1].coef > 0 /\ o[2].coef = 0 /\ o[3].coef = 0
    /\ rpc = "done" =>
          WrittenRows = Range(rshape.batch) \X Range(rshape.seqlen)
\* The scenario of the interface: the row [3,4,0,0] has been normalised.
UnitRmsWitness ==
    /\ rpc = "done" /\ rpattern = "scenario" /\ rshape.dim = 4
    /\ rshape.seqlen = 1

====
